---- MODULE Spec2Model ----
(***************************************************************************)
(* schema2code: reference resolution (util/resolver.py), closure discovery *)
(* and the driver (main.py), the shared type traversal                     *)
(* (util/schema_helpers.py), and the Go generator (generators/go.py) as    *)
(* far as it uses the resolver and processed_types.                        *)
(*                                                                         *)
(* Python strings are sequences of one-character strings, so that path     *)
(* and name arithmetic (dirname, join, splitext, capitalize, split) is     *)
(* computed as the code computes it.  A Python dict is a sequence of       *)
(* <<key, value>> pairs in insertion order.  A schema node is a record     *)
(* whose DOMAIN is the set of JSON keys present; the JSON key "$ref" is    *)
(* the field  ref.                                                         *)
(***************************************************************************)
EXTENDS Integers, Sequences, FiniteSets, TLC

(* ------------------------------------------------------------------ *)
(* A local variable: v is computed once and used as x in F            *)
(* ------------------------------------------------------------------ *)
Let(v, F(_)) == F(v)

(* ------------------------------------------------------------------ *)
(* Strings                                                            *)
(* ------------------------------------------------------------------ *)
LowerChars == <<"a","b","c","d","e","f","g","h","i","j","k","l","m",
                "n","o","p","q","r","s","t","u","v","w","x","y","z">>
UpperChars == <<"A","B","C","D","E","F","G","H","I","J","K","L","M",
                "N","O","P","Q","R","S","T","U","V","W","X","Y","Z">>

\* str.upper() on one character
UpperChar(c) ==
    IF \E i \in 1..26 : LowerChars[i] = c
    THEN UpperChars[CHOOSE i \in 1..26 : LowerChars[i] = c]
    ELSE c

\* str.lower() on one character
LowerChar(c) ==
    IF \E i \in 1..26 : UpperChars[i] = c
    THEN LowerChars[CHOOSE i \in 1..26 : UpperChars[i] = c]
    ELSE c

\* s.startswith(pre)
StartsWith(s, pre) ==
    Len(s) >= Len(pre) /\ SubSeq(s, 1, Len(pre)) = pre

\* s.rfind(c) + 1 : the 1-based index of the last c in s, 0 when absent
RFind(s, c) ==
    IF \E i \in 1..Len(s) : s[i] = c
    THEN CHOOSE i \in 1..Len(s) : s[i] = c /\ \A j \in (i+1)..Len(s) : s[j] # c
    ELSE 0

\* s[n:]
Drop(s, n) == SubSeq(s, n + 1, Len(s))

\* s.rstrip(c)
RECURSIVE RStrip(_, _)
RStrip(s, c) ==
    IF s # <<>> /\ s[Len(s)] = c THEN RStrip(SubSeq(s, 1, Len(s) - 1), c) ELSE s

\* s.split(sep) for a one-character separator: the sequence of segments
RECURSIVE Split(_, _)
Split(s, sep) ==
    IF \E i \in 1..Len(s) : s[i] = sep
    THEN Let(CHOOSE k \in 1..Len(s) :
                 s[k] = sep /\ \A j \in 1..(k-1) : s[j] # sep,
             LAMBDA i : <<SubSeq(s, 1, i - 1)>> \o Split(Drop(s, i), sep))
    ELSE <<s>>

\* "".join(parts)
RECURSIVE Concat(_)
Concat(parts) ==
    IF parts = <<>> THEN <<>> ELSE Head(parts) \o Concat(Tail(parts))

\* s.replace(a, b) for one-character a and b
Replace(s, a, b) == [i \in 1..Len(s) |-> IF s[i] = a THEN b ELSE s[i]]

\* str.capitalize(): first character upper-cased, every other one lower-cased
Capitalize(s) ==
    [i \in 1..Len(s) |-> IF i = 1 THEN UpperChar(s[i]) ELSE LowerChar(s[i])]

\* x[:1].upper() + x[1:]
UpperFirst(s) ==
    [i \in 1..Len(s) |-> IF i = 1 THEN UpperChar(s[i]) ELSE s[i]]

(* ------------------------------------------------------------------ *)
(* os.path (posixpath)                                                *)
(* ------------------------------------------------------------------ *)
\* os.path.dirname(p)
dirname(p) ==
    Let(SubSeq(p, 1, RFind(p, "/")), LAMBDA head :
        IF head # <<>> /\ RStrip(head, "/") # <<>> THEN RStrip(head, "/")
        ELSE head)

\* os.path.basename(p); also p.split("/")[-1]
basename(p) == Drop(p, RFind(p, "/"))

\* os.path.join(a, b)
join(a, b) ==
    IF StartsWith(b, <<"/">>) THEN b
    ELSE IF a = <<>> \/ a[Len(a)] = "/" THEN a \o b
    ELSE a \o <<"/">> \o b

\* os.path.splitext(p)[0]: cut at the last dot of the last component, unless
\* that component has only dots before it
splitext(p) ==
    Let(RFind(p, "/"), LAMBDA sepIndex :
    Let(RFind(p, "."), LAMBDA dotIndex :
        IF dotIndex > sepIndex
           /\ \E k \in (sepIndex + 1)..(dotIndex - 1) : p[k] # "."
        THEN SubSeq(p, 1, dotIndex - 1)
        ELSE p))

(* ------------------------------------------------------------------ *)
(* Python dicts: <<key, value>> pairs in insertion order              *)
(* ------------------------------------------------------------------ *)
\* k in d
DHas(d, k) == \E i \in 1..Len(d) : d[i][1] = k

\* d[k]
DGet(d, k) == d[CHOOSE i \in 1..Len(d) : d[i][1] = k][2]

\* d[k] = v : a present key keeps its position, a new key goes last
DPut(d, k, v) ==
    IF DHas(d, k)
    THEN [i \in 1..Len(d) |-> IF d[i][1] = k THEN <<k, v>> ELSE d[i]]
    ELSE Append(d, <<k, v>>)

\* the keys of d, as a set
DKeys(d) == {d[i][1] : i \in 1..Len(d)}

\* the set of elements of a sequence
Range(s) == {s[i] : i \in 1..Len(s)}


(* ------------------------------------------------------------------ *)
(* Names                                                              *)
(* ------------------------------------------------------------------ *)
\* the first character upper-cased and the separators kept
to_pascal_case_unsplit(name) == UpperFirst(name)

\* util/schema_helpers.py to_pascal_case
to_pascal_case(name) ==
    IF name = <<>> THEN <<>>
    ELSE Let(Split(Replace(name, "-", "_"), "_"), LAMBDA parts :
             Concat([i \in 1..Len(parts) |-> UpperFirst(parts[i])]))

\* util/resolver.py: the type name resolve_ref and add_external_ref derive
\* from the pointer's file name
external_type_name(ref_path) ==
    Let(splitext(basename(ref_path)), LAMBDA base_name :
    Let(Split(IF StartsWith(base_name, <<"U">>) THEN Drop(base_name, 1)
              ELSE base_name, "_"), LAMBDA parts :
        Concat([i \in 1..Len(parts) |-> Capitalize(parts[i])])))

\* ref_path.startswith("#/definitions/")
IsLocalRef(ref_path) ==
    StartsWith(ref_path, <<"#","/","d","e","f","i","n","i","t","i","o","n","s","/">>)

\* not ref_path.startswith("#")
IsExternalRef(ref_path) == ~StartsWith(ref_path, <<"#">>)

(* ------------------------------------------------------------------ *)
(* Bounds                                                             *)
(* ------------------------------------------------------------------ *)
\* the root document has at most MaxItems definitions and properties
\* together
MaxItems == 2

\* depth at which a Python call chain raises RecursionError
\* (sys.getrecursionlimit(), scaled down)
RecursionLimit == 3

\* direct calls of the resolver's methods in one history
MaxCalls == 2

\* the longest name to_pascal_case is applied to, besides "model_details"
MaxNameLen == 3

(* ------------------------------------------------------------------ *)
(* The files of a run                                                 *)
(* ------------------------------------------------------------------ *)
\* args.schema_file: "s/a.json"
schema_file == <<"s","/","a",".","j","s","o","n">>

N_A       == <<"A">>
N_B       == <<"B">>
N_C       == <<"C">>
N_Other   == <<"O","t","h","e","r">>
N_E       == <<"E">>
N_Foo     == <<"F","o","o">>
N_Bar     == <<"B","a","r">>
N_Baz     == <<"B","a","z">>
N_Loop    == <<"L","o","o","p">>
N_Gone    == <<"G","o","n","e">>
N_Message == <<"M","e","s","s","a","g","e">>

R_a       == <<"a",".","j","s","o","n">>
R_b       == <<"b",".","j","s","o","n">>
R_bschema == <<".","/","b",".","s","c","h","e","m","a",".","j","s","o","n">>
R_c       == <<"c",".","j","s","o","n">>
R_db      == <<"d","/","b",".","j","s","o","n">>
R_m       == <<"m",".","j","s","o","n">>
R_x       == <<"x",".","j","s","o","n">>
R_Foo     == <<"#","/","d","e","f","i","n","i","t","i","o","n","s","/","F","o","o">>
R_Baz     == <<"#","/","d","e","f","i","n","i","t","i","o","n","s","/","B","a","z">>
R_Gone    == <<"#","/","d","e","f","i","n","i","t","i","o","n","s","/","G","o","n","e">>
R_root    == <<"#","/","p","r","o","p","e","r","t","i","e","s","/","f","o","o">>
R_Bar     == <<"#","/","d","e","f","i","n","i","t","i","o","n","s","/","B","a","r">>
R_self    == <<"#">>
R_Loop    == <<"#","/","d","e","f","i","n","i","t","i","o","n","s","/","L","o","o","p">>
R_de      == <<"d","/","e",".","j","s","o","n">>

StringType == [type |-> "string"]

\* s/b.json
DocB ==
    [title |-> N_B, type |-> "object",
     properties |-> << <<<<"i","d">>, StringType>> >>]

\* s/b.schema.json
DocBSchema ==
    [type |-> "object",
     properties |-> << <<<<"n","a","m","e">>, StringType>> >>]

\* s/c.json: points back at the root document
DocC ==
    [title |-> N_C, type |-> "object",
     properties |-> << <<<<"b","a","c","k">>, [ref |-> R_a]>> >>]

\* s/d/b.json: another document with the base name of s/b.json
DocDB ==
    [title |-> N_Other, type |-> "object",
     properties |-> << <<<<"n">>, [type |-> "integer"]>> >>]

\* s/d/e.json: a document in another directory than the root's, with a
\* definition of its own, a pointer to it, a pointer to the b.json next to
\* it, and a pointer to a definition it does not have
DocDE ==
    [title |-> N_E, type |-> "object",
     definitions |-> << <<N_Bar, [type |-> "object",
                                  properties |-> << <<<<"w">>, StringType>> >>]>> >>,
     properties |-> << <<<<"p","e","e","r">>, [ref |-> R_b]>>,
                       <<<<"p","a","r","t">>, [ref |-> R_Bar]>>,
                       <<<<"a","g","a","i","n">>, [ref |-> R_Loop]>> >>]

\* The files next to the root document, by normalised path.  s/x.json is
\* not valid JSON; s/m.json does not exist.
ExternalFiles ==
    << <<<<"s","/","b",".","j","s","o","n">>,        [kind |-> "doc", doc |-> DocB]>>,
       <<<<"s","/","b",".","s","c","h","e","m","a",".","j","s","o","n">>, [kind |-> "doc", doc |-> DocBSchema]>>,
       <<<<"s","/","c",".","j","s","o","n">>,        [kind |-> "doc", doc |-> DocC]>>,
       <<<<"s","/","d","/","b",".","j","s","o","n">>,      [kind |-> "doc", doc |-> DocDB]>>,
       <<<<"s","/","d","/","e",".","j","s","o","n">>,      [kind |-> "doc", doc |-> DocDE]>>,
       <<<<"s","/","x",".","j","s","o","n">>,        [kind |-> "malformed"]>> >>

\* The catalogue the root document's properties are drawn from
PropCatalog ==
    << <<<<"m","e","s","s","a","g","e">>, [type |-> "object",
                      properties |-> << <<<<"t","e","x","t">>, StringType>> >>]>>,
       <<<<"b","a","r">>,     [type |-> "object",
                      properties |-> << <<<<"s","i","z","e">>, StringType>> >>]>>,
       <<<<"f","o","o">>,     [ref |-> R_Foo]>>,
       <<<<"i","t","e","m">>,    [ref |-> R_Bar]>>,
       <<<<"b">>,       [ref |-> R_b]>>,
       <<<<"c">>,       [ref |-> R_c]>>,
       <<<<"o","t","h","e","r">>,   [ref |-> R_db]>>,
       <<<<"m">>,       [ref |-> R_m]>>,
       <<<<"x">>,       [ref |-> R_x]>>,
       <<<<"e">>,       [ref |-> R_de]>>,
       <<<<"t","a","g","s">>,    [type |-> "array", items |-> [ref |-> R_b]]>>,
       <<<<"s","t","a","t","u","s">>,  [type |-> "string",
                      enum |-> << <<"o","n">>, <<"o","f","f">> >>]>>,
       <<<<"l","i","s","t">>,    [type |-> "array", items |->
                      [type |-> "object",
                       properties |-> << <<<<"k">>, StringType>> >>]]>>,
       <<<<"o","u","t","e","r">>,   [type |-> "object", properties |->
                      << <<<<"i","n","n","e","r">>,
                           [type |-> "object",
                            properties |-> << <<<<"v">>, StringType>> >>]>> >>]>> >>

\* The catalogue the root document's definitions are drawn from
DefCatalog ==
    << <<N_Foo,  [ref |-> R_bschema]>>,
       <<N_Bar,  [type |-> "object",
                 properties |-> << <<<<"l","e","n">>, StringType>> >>]>>,
       <<N_Baz,  [ref |-> R_Bar]>>,
       <<N_Gone, [ref |-> R_m]>>,
       <<N_Loop, [ref |-> R_Loop]>> >>

\* the sequences without repetition of at most n elements of 1..m
RECURSIVE InjSeqs(_, _)
InjSeqs(m, n) ==
    IF n = 0 THEN {<<>>}
    ELSE LET shorter == InjSeqs(m, n - 1)
         IN  shorter \cup
             {Append(q, i) : <<q, i>> \in
                 {x \in shorter \X (1..m) :
                     Len(x[1]) = n - 1 /\ \A k \in 1..Len(x[1]) : x[1][k] # x[2]}}

\* a document with the given title, definitions and properties; an empty
\* dict is a key that is absent
MakeDoc(title, defs, props) ==
    LET core == [title |-> title, type |-> "object"]
        d    == IF defs = <<>> THEN core
                ELSE [k \in DOMAIN core \cup {"definitions"} |->
                        IF k = "definitions" THEN defs ELSE core[k]]
    IN  IF props = <<>> THEN d
        ELSE [k \in DOMAIN d \cup {"properties"} |->
                IF k = "properties" THEN props ELSE d[k]]

\* the root documents of the model
RootDocs ==
    {MakeDoc(N_A, [i \in 1..Len(dq) |-> DefCatalog[dq[i]]],
                  [i \in 1..Len(pq) |-> PropCatalog[pq[i]]]) :
        <<dq, pq>> \in
          {x \in InjSeqs(Len(DefCatalog), MaxItems)
                 \X InjSeqs(Len(PropCatalog), MaxItems) :
             Len(x[1]) + Len(x[2]) <= MaxItems}}

(* ------------------------------------------------------------------ *)
(* State                                                              *)
(* ------------------------------------------------------------------ *)
VARIABLES
    root_schema,   \* the document in args.schema_file
    pc,            \* where the run is
    ref_resolver,  \* SchemaRefResolver: its four dicts
    reads,         \* dict  path -> number of times the file was read
    stack,         \* the active calls of _preprocess_schema_references
    warnings,      \* pointers reported on stderr by closure discovery
    calls,         \* the descriptors handed to type_callback, in order
    output_files,  \* generate_types: dict  output path -> artifact
    pending,       \* external schemas generate_types has still to generate
    processed_types,  \* [initial, final]: the set a traversal was given
                      \* and the set it left
    api            \* direct calls of the resolver: how many, the last one,
                   \* and each pointer's first successful result

vars == <<root_schema, pc, ref_resolver, reads, stack, warnings, calls,
          output_files, pending, processed_types, api>>

\* SchemaRefResolver.__init__
NewResolver ==
    [loaded_schemas |-> <<>>, external_refs |-> <<>>,
     external_ref_types |-> <<>>, definition_to_external_map |-> <<>>]

\* self.base_path of the run's resolver
base_path == schema_file

(* ------------------------------------------------------------------ *)
(* Files and util/loader.py                                           *)
(* ------------------------------------------------------------------ *)
\* the path the operating system opens for p: "." components dropped
Normalize(p) ==
    Let(SelectSeq(Split(p, "/"), LAMBDA x : x # <<".">>), LAMBDA parts :
        Concat([i \in 1..Len(parts) |->
                  IF i = 1 THEN parts[i] ELSE <<"/">> \o parts[i]]))

\* what is stored under path
FileAt(path) ==
    Let(Normalize(path), LAMBDA n :
        IF n = schema_file THEN [kind |-> "doc", doc |-> root_schema]
        ELSE IF DHas(ExternalFiles, n) THEN DGet(ExternalFiles, n)
        ELSE [kind |-> "missing"])

NoValue == [none |-> TRUE]

\* the resolver and the read counts as one value, away from the recursion
\* limit, with no exception on its way up to the caller
World(rr, rd) == [rr |-> rr, reads |-> rd, intr |-> "none", raised |-> FALSE]

\* one more read of path
CountRead(rd, path) ==
    DPut(rd, path, IF DHas(rd, path) THEN DGet(rd, path) + 1 ELSE 1)

\* SchemaLoader.load_schema: open() fails on a missing file before anything
\* is read; a malformed file is read and then fails to parse
load_schema(path, rd) ==
    Let(FileAt(path), LAMBDA f :
        IF f.kind = "missing"
        THEN [ok |-> FALSE, val |-> NoValue, reads |-> rd]
        ELSE IF f.kind = "malformed"
        THEN [ok |-> FALSE, val |-> NoValue, reads |-> CountRead(rd, path)]
        ELSE [ok |-> TRUE, val |-> f.doc, reads |-> CountRead(rd, path)])

\* loader = SchemaLoader(path); loader.load_schema(): the constructor
\* loads the file, and the call loads it again.  Near the recursion limit
\* (intr) the load is cut short by RecursionError: before the file is
\* opened, or in the parse of the constructor's read.
LoaderThenLoad(path, rd, intr) ==
    Let(load_schema(path, rd), LAMBDA first :
        IF intr = "before_read"
        THEN [ok |-> FALSE, val |-> NoValue, reads |-> rd]
        ELSE IF intr = "in_first_read"
        THEN [ok |-> FALSE, val |-> NoValue, reads |-> first.reads]
        ELSE IF first.ok THEN load_schema(path, first.reads) ELSE first)

(* ------------------------------------------------------------------ *)
(* util/resolver.py                                                   *)
(* The resolver's operations take and return  w = [rr, reads, intr,  *)
(* raised]: the resolver's dicts, the file-read counts, where         *)
(* RecursionError cuts a file load short ("none" away from the        *)
(* recursion limit), and whether an exception no handler caught is    *)
(* on its way up to generate_types.                                   *)
(* ------------------------------------------------------------------ *)
Fail(w, err, ptr) == [ok |-> FALSE, val |-> NoValue, err |-> err, ptr |-> ptr, w |-> w]
Return(w, val)    == [ok |-> TRUE, val |-> val, err |-> "", ptr |-> <<>>, w |-> w]

\* resolve_external without the look into loaded_schemas: the file is
\* loaded on every call
resolve_external_uncached(w, ref_path) ==
    Let(join(dirname(base_path), ref_path), LAMBDA schema_path :
    Let(LoaderThenLoad(schema_path, w.reads, w.intr), LAMBDA ld :
        IF ~ld.ok
        THEN Fail([w EXCEPT !.reads = ld.reads], "ValueError", ref_path)
        ELSE Return([w EXCEPT
                        !.rr.loaded_schemas = DPut(@, schema_path, ld.val),
                        !.reads = ld.reads],
                    ld.val)))

\* resolve_external tracking the pointer before the file is loaded
resolve_external_track_first(w, ref_path) ==
    Let(join(dirname(base_path), ref_path), LAMBDA schema_path :
        IF ~DHas(w.rr.loaded_schemas, schema_path)
        THEN Let(LoaderThenLoad(schema_path, w.reads, w.intr), LAMBDA ld :
             Let(external_type_name(ref_path), LAMBDA type_name :
             Let([w EXCEPT
                     !.rr.external_refs = DPut(@, ref_path, schema_path),
                     !.rr.external_ref_types =
                         DPut(DPut(@, schema_path, type_name),
                              ref_path, type_name),
                     !.reads = ld.reads], LAMBDA w1 :
                 IF ~ld.ok
                 THEN Fail(w1, "ValueError", ref_path)
                 ELSE Return(
                        [w1 EXCEPT
                            !.rr.loaded_schemas = DPut(@, schema_path, ld.val)],
                        ld.val))))
        ELSE Return(w, DGet(w.rr.loaded_schemas, schema_path)))

\* resolve_ref, the external branch (lines 40-69)
resolve_external(w, ref_path) ==
    Let(join(dirname(base_path), ref_path), LAMBDA schema_path :
        IF ~DHas(w.rr.loaded_schemas, schema_path)
        THEN Let(LoaderThenLoad(schema_path, w.reads, w.intr), LAMBDA ld :
             Let(external_type_name(ref_path), LAMBDA type_name :
                 IF ~ld.ok
                 THEN Fail([w EXCEPT !.reads = ld.reads], "ValueError", ref_path)
                 ELSE Return(
                        [w EXCEPT
                            !.rr.loaded_schemas = DPut(@, schema_path, ld.val),
                            !.rr.external_refs = DPut(@, ref_path, schema_path),
                            !.rr.external_ref_types =
                                DPut(DPut(@, schema_path, type_name),
                                     ref_path, type_name),
                            !.reads = ld.reads],
                        ld.val)))
        ELSE Return(w, DGet(w.rr.loaded_schemas, schema_path)))

RECURSIVE resolve_ref(_, _, _)

\* resolve_ref taking an absent definition for an empty object
resolve_ref_absent_as_object(w, ref_path, depth) ==
    IF depth > RecursionLimit THEN Fail(w, "RecursionError", ref_path)
    ELSE IF IsLocalRef(ref_path)
    THEN Let(basename(ref_path), LAMBDA def_name :
             IF "definitions" \in DOMAIN root_schema
                /\ DHas(root_schema.definitions, def_name)
             THEN Let(DGet(root_schema.definitions, def_name), LAMBDA ref_value :
                      IF "ref" \in DOMAIN ref_value
                      THEN resolve_ref(
                               IF IsExternalRef(ref_value.ref)
                               THEN [w EXCEPT
                                      !.rr.definition_to_external_map =
                                          DPut(@, def_name, ref_value.ref)]
                               ELSE w,
                               ref_value.ref, depth + 1)
                      ELSE Return(w, ref_value))
             ELSE Return(w, [type |-> "object"]))
    ELSE IF IsExternalRef(ref_path)
    THEN resolve_external(w, ref_path)
    ELSE Fail(w, "ValueError", ref_path)

\* resolve_ref taking every other pointer that begins with "#" for the root
resolve_ref_other_as_root(w, ref_path, depth) ==
    IF depth > RecursionLimit THEN Fail(w, "RecursionError", ref_path)
    ELSE IF IsLocalRef(ref_path)
    THEN Let(basename(ref_path), LAMBDA def_name :
             IF "definitions" \in DOMAIN root_schema
                /\ DHas(root_schema.definitions, def_name)
             THEN Let(DGet(root_schema.definitions, def_name), LAMBDA ref_value :
                      IF "ref" \in DOMAIN ref_value
                      THEN resolve_ref(
                               IF IsExternalRef(ref_value.ref)
                               THEN [w EXCEPT
                                      !.rr.definition_to_external_map =
                                          DPut(@, def_name, ref_value.ref)]
                               ELSE w,
                               ref_value.ref, depth + 1)
                      ELSE Return(w, ref_value))
             ELSE Fail(w, "ValueError", ref_path))
    ELSE IF IsExternalRef(ref_path)
    THEN resolve_external(w, ref_path)
    ELSE Return(w, root_schema)

\* resolve_ref recording an alias after its inner pointer has resolved
resolve_ref_alias_after(w, ref_path, depth) ==
    IF depth > RecursionLimit THEN Fail(w, "RecursionError", ref_path)
    ELSE IF IsLocalRef(ref_path)
    THEN Let(basename(ref_path), LAMBDA def_name :
             IF "definitions" \in DOMAIN root_schema
                /\ DHas(root_schema.definitions, def_name)
             THEN Let(DGet(root_schema.definitions, def_name), LAMBDA ref_value :
                      IF "ref" \in DOMAIN ref_value
                      THEN Let(resolve_ref(w, ref_value.ref, depth + 1),
                               LAMBDA res :
                               IF IsExternalRef(ref_value.ref) /\ res.ok
                               THEN [res EXCEPT
                                      !.w.rr.definition_to_external_map =
                                          DPut(@, def_name, ref_value.ref)]
                               ELSE res)
                      ELSE Return(w, ref_value))
             ELSE Fail(w, "ValueError", ref_path))
    ELSE IF IsExternalRef(ref_path)
    THEN resolve_external(w, ref_path)
    ELSE Fail(w, "ValueError", ref_path)

\* resolve_ref recording the pointer of every definition that is a
\* pointer, local ones included
resolve_ref_alias_any(w, ref_path, depth) ==
    IF depth > RecursionLimit THEN Fail(w, "RecursionError", ref_path)
    ELSE IF IsLocalRef(ref_path)
    THEN Let(basename(ref_path), LAMBDA def_name :
             IF "definitions" \in DOMAIN root_schema
                /\ DHas(root_schema.definitions, def_name)
             THEN Let(DGet(root_schema.definitions, def_name), LAMBDA ref_value :
                      IF "ref" \in DOMAIN ref_value
                      THEN resolve_ref(
                               [w EXCEPT
                                  !.rr.definition_to_external_map =
                                      DPut(@, def_name, ref_value.ref)],
                               ref_value.ref, depth + 1)
                      ELSE Return(w, ref_value))
             ELSE Fail(w, "ValueError", ref_path))
    ELSE IF IsExternalRef(ref_path)
    THEN resolve_external(w, ref_path)
    ELSE Fail(w, "ValueError", ref_path)

\* SchemaRefResolver.resolve_ref; depth is the depth of the Python call
resolve_ref(w, ref_path, depth) ==
    IF depth > RecursionLimit THEN Fail(w, "RecursionError", ref_path)
    ELSE IF IsLocalRef(ref_path)
    THEN Let(basename(ref_path), LAMBDA def_name :
             IF "definitions" \in DOMAIN root_schema
                /\ DHas(root_schema.definitions, def_name)
             THEN Let(DGet(root_schema.definitions, def_name), LAMBDA ref_value :
                      IF "ref" \in DOMAIN ref_value
                      THEN resolve_ref(
                               IF IsExternalRef(ref_value.ref)
                               THEN [w EXCEPT
                                      !.rr.definition_to_external_map =
                                          DPut(@, def_name, ref_value.ref)]
                               ELSE w,
                               ref_value.ref, depth + 1)
                      ELSE Return(w, ref_value))
             ELSE Fail(w, "ValueError", ref_path))
    ELSE IF IsExternalRef(ref_path)
    THEN resolve_external(w, ref_path)
    ELSE Fail(w, "ValueError", ref_path)

\* add_external_ref entering an empty document for the path it tracks
add_external_ref_preloading(w, ref_path) ==
    IF IsExternalRef(ref_path)
    THEN Let(join(dirname(base_path), ref_path), LAMBDA schema_path :
             [w EXCEPT
                !.rr.external_refs = DPut(@, ref_path, schema_path),
                !.rr.loaded_schemas =
                    IF ~DHas(@, schema_path)
                    THEN DPut(@, schema_path, [type |-> "object"])
                    ELSE @,
                !.rr.external_ref_types =
                    IF ~DHas(@, schema_path)
                    THEN DPut(@, schema_path, external_type_name(ref_path))
                    ELSE @])
    ELSE w

\* SchemaRefResolver.add_external_ref
add_external_ref(w, ref_path) ==
    IF IsExternalRef(ref_path)
    THEN Let(join(dirname(base_path), ref_path), LAMBDA schema_path :
             [w EXCEPT
                !.rr.external_refs = DPut(@, ref_path, schema_path),
                !.rr.external_ref_types =
                    IF ~DHas(@, schema_path)
                    THEN DPut(@, schema_path, external_type_name(ref_path))
                    ELSE @])
    ELSE w

\* SchemaRefResolver.get_external_schemas: dict schema_path -> <<document,
\* type name>>; KeyError when a tracked path has no loaded document.
\* The loop over external_refs from item i on, result so far
RECURSIVE external_schemas_from(_, _, _)
external_schemas_from(rr, i, result) ==
    IF i > Len(rr.external_refs) THEN [ok |-> TRUE, val |-> result]
    ELSE Let(rr.external_refs[i][2], LAMBDA schema_path :
             IF ~DHas(rr.loaded_schemas, schema_path)
             THEN [ok |-> FALSE, val |-> result]
             ELSE external_schemas_from(rr, i + 1,
                    DPut(result, schema_path,
                         <<DGet(rr.loaded_schemas, schema_path),
                           IF DHas(rr.external_ref_types, schema_path)
                           THEN DGet(rr.external_ref_types, schema_path)
                           ELSE <<>> >>)))

get_external_schemas(rr) == external_schemas_from(rr, 1, <<>>)

\* SchemaRefResolver.get_type_for_path
RECURSIVE get_type_for_path(_, _)
get_type_for_path(rr, ref_path) ==
    IF IsExternalRef(ref_path)
    THEN IF DHas(rr.external_ref_types, ref_path)
         THEN DGet(rr.external_ref_types, ref_path)
         ELSE <<>>
    ELSE IF IsLocalRef(ref_path)
    THEN Let(basename(ref_path), LAMBDA def_name :
             IF DHas(rr.definition_to_external_map, def_name)
             THEN get_type_for_path(rr,
                      DGet(rr.definition_to_external_map, def_name))
             ELSE def_name)
    ELSE <<>>

(* ------------------------------------------------------------------ *)
(* main.py: the run                                                   *)
(* ------------------------------------------------------------------ *)
\* schema.get("properties", {}).items()
Properties(schema) ==
    IF "properties" \in DOMAIN schema THEN schema.properties ELSE <<>>

\* schema["definitions"].items(), empty without the key
Definitions(schema) ==
    IF "definitions" \in DOMAIN schema THEN schema.definitions ELSE <<>>

\* The entries _preprocess_schema_references loops over, in its order:
\* the properties, then the definitions
PreprocessItems(schema) == Properties(schema) \o Definitions(schema)

\* A call of _preprocess_schema_references is a frame [schema, pos]: pos is
\* the entry its loop is at.  A call whose loops are done returns to its
\* caller, whose own loop may then be done too.
RECURSIVE ReturnFinished(_)
ReturnFinished(st) ==
    IF st # <<>> /\ st[Len(st)].pos > Len(PreprocessItems(st[Len(st)].schema))
    THEN ReturnFinished(SubSeq(st, 1, Len(st) - 1))
    ELSE st

\* the frames with the loop of the innermost call moved to its next entry
Advance(st) ==
    [st EXCEPT ![Len(st)].pos = @ + 1]

NoCalls ==
    [n |-> 0, last |-> [op |-> "none"], prev |-> [op |-> "none"],
     first |-> <<>>]

Init ==
    /\ root_schema \in RootDocs
    /\ pc = "start"
    /\ ref_resolver = NewResolver
    /\ reads = <<>>
    /\ stack = <<>>
    /\ warnings = {}
    /\ calls = <<>>
    /\ output_files = <<>>
    /\ pending = <<>>
    /\ processed_types = [initial |-> {}, final |-> {}]
    /\ api = NoCalls

\* main(): loader = SchemaLoader(args.schema_file); schema_data =
\* loader.load_schema(); then generate_types() builds the resolver and
\* calls _preprocess_schema_references(ref_resolver, schema_data)
MainLoad ==
    /\ pc = "start"
    /\ \E ld \in {LoaderThenLoad(schema_file, reads, "none")} :
           /\ reads' = ld.reads
           /\ pc' = IF ld.ok THEN "preprocess" ELSE "failed"
           /\ stack' = IF ld.ok
                       THEN ReturnFinished(<<[schema |-> ld.val, pos |-> 1]>>)
                       ELSE <<>>
    /\ ref_resolver' = NewResolver
    /\ UNCHANGED <<root_schema, warnings, calls, output_files, pending,
                   processed_types, api>>

\* where RecursionError can cut short a file load started from the
\* innermost of the calls st of _preprocess_schema_references: from the
\* deepest call the limit allows and, since a load takes more Python frames
\* than a nested call, from the call above it when the calls already go
\* round a cycle of documents
Interruptions(st) ==
    IF \/ Len(st) >= RecursionLimit
       \/ /\ Len(st) = RecursionLimit - 1
          /\ \E i, j \in 1..Len(st) : i < j /\ st[i].schema = st[j].schema
    THEN {"none", "before_read", "in_first_read"}
    ELSE {"none"}

\* One iteration of a loop of _preprocess_schema_references, in the
\* innermost active call: an entry with a pointer is registered when
\* external, resolved, and the resolved schema is preprocessed in turn.  An
\* exception (a failed resolution, or RecursionError from the nested call)
\* is reported and the loop goes on.
PreprocessStep ==
    /\ pc = "preprocess"
    /\ stack # <<>>
    /\ \E top \in {stack[Len(stack)]} :
       \E entry \in {PreprocessItems(top.schema)[top.pos][2]} :
           IF "ref" \notin DOMAIN entry
           THEN /\ stack' = ReturnFinished(Advance(stack))
                /\ UNCHANGED <<ref_resolver, reads, warnings>>
           ELSE \E intr \in Interruptions(stack) :
                \E w0 \in {[World(ref_resolver, reads) EXCEPT !.intr = intr]} :
                \E w1 \in {IF IsExternalRef(entry.ref)
                           THEN add_external_ref(w0, entry.ref) ELSE w0} :
                \E res \in {resolve_ref(w1, entry.ref, Len(stack))} :
                    /\ ref_resolver' = res.w.rr
                    /\ reads' = res.w.reads
                    /\ IF res.ok /\ Len(stack) < RecursionLimit
                       THEN /\ stack' = ReturnFinished(
                                   Append(Advance(stack),
                                          [schema |-> res.val, pos |-> 1]))
                            /\ UNCHANGED warnings
                       ELSE /\ stack' = ReturnFinished(Advance(stack))
                            /\ warnings' = warnings \cup {entry.ref}
    /\ UNCHANGED <<root_schema, pc, calls, output_files, pending,
                   processed_types, api>>

\* _preprocess_schema_references has returned to generate_types
PreprocessReturn ==
    /\ pc = "preprocess"
    /\ stack = <<>>
    /\ pc' = "generate_main"
    /\ UNCHANGED <<root_schema, ref_resolver, reads, stack, warnings, calls,
                   output_files, pending, processed_types, api>>

(* ------------------------------------------------------------------ *)
(* generators/go.py, as far as it uses the resolver and                *)
(* processed_types                                                    *)
(* ------------------------------------------------------------------ *)
\* title = schema.get("title", "").replace(" ", ""); "Root" when empty
GoTitle(schema) ==
    Let(IF "title" \in DOMAIN schema
        THEN SelectSeq(schema.title, LAMBDA c : c # " ") ELSE <<>>,
        LAMBDA title : IF title = <<>> THEN <<"R","o","o","t">> ELSE title)

\* os.path.abspath(a) == os.path.abspath(b)
SameFile(a, b) == Normalize(a) = Normalize(b)

\* try: ref_resolver.resolve_ref(ref_path) / except ValueError: the handler
\* of the Go generator swallows ValueError; RecursionError is not one and
\* goes on up
resolve_or_raise(w, ref_path) ==
    Let(resolve_ref(w, ref_path, 1), LAMBDA res :
        IF ~res.ok /\ res.err # "ValueError"
        THEN [res.w EXCEPT !.raised = TRUE]
        ELSE res.w)

\* GoGenerator._get_go_type, for what it does to the resolver: a pointer is
\* resolved (a ValueError is reported and swallowed), an array goes on to
\* its items
RECURSIVE get_go_type(_, _)
get_go_type(prop_schema, w) ==
    IF "ref" \in DOMAIN prop_schema
    THEN resolve_or_raise(w, prop_schema.ref)
    ELSE IF "type" \in DOMAIN prop_schema /\ prop_schema.type = "array"
    THEN get_go_type(IF "items" \in DOMAIN prop_schema THEN prop_schema.items
                     ELSE <<>>, w)
    ELSE w

\* GoGenerator.COMMON_ACRONYMS
COMMON_ACRONYMS ==
    << <<<<"i","d">>, <<"I","D">>>>,
       <<<<"u","r","l">>, <<"U","R","L">>>>,
       <<<<"u","r","i">>, <<"U","R","I">>>>,
       <<<<"a","p","i">>, <<"A","P","I">>>>,
       <<<<"u","i">>, <<"U","I">>>>,
       <<<<"u","i","d">>, <<"U","I","D">>>>,
       <<<<"u","u","i","d">>, <<"U","U","I","D">>>>,
       <<<<"h","t","t","p">>, <<"H","T","T","P">>>>,
       <<<<"h","t","t","p","s">>, <<"H","T","T","P","S">>>>,
       <<<<"h","t","m","l">>, <<"H","T","M","L">>>>,
       <<<<"c","s","s">>, <<"C","S","S">>>>,
       <<<<"j","s","o","n">>, <<"J","S","O","N">>>>,
       <<<<"x","m","l">>, <<"X","M","L">>>>,
       <<<<"y","a","m","l">>, <<"Y","A","M","L">>>>,
       <<<<"s","q","l">>, <<"S","Q","L">>>>,
       <<<<"d","b">>, <<"D","B">>>>,
       <<<<"i","p">>, <<"I","P">>>>,
       <<<<"t","c","p">>, <<"T","C","P">>>>,
       <<<<"u","d","p">>, <<"U","D","P">>>> >>

\* one word of _to_go_field_name: an acronym in capitals, any other word
\* with its first letter in upper case
go_field_word(word) ==
    Let([i \in 1..Len(word) |-> LowerChar(word[i])], LAMBDA lower :
        IF DHas(COMMON_ACRONYMS, lower) THEN DGet(COMMON_ACRONYMS, lower)
        ELSE UpperFirst(word))

\* GoGenerator._to_go_field_name(name) for a name in lower case: the words
\* between underscores, or the one word the regular expression finds in a
\* name without underscores or capitals
to_go_field_name(name) ==
    IF \E i \in 1..Len(name) : name[i] = "_"
    THEN Let(Split(name, "_"), LAMBDA words :
             Concat([i \in 1..Len(words) |-> go_field_word(words[i])]))
    ELSE go_field_word(name)

\* _generate_struct_only, the loop over the properties with an inline
\* enum (lines 434-452): the name title + field name is added to
\* processed_types, and the enum is generated under it
RECURSIVE go_enum_pass(_, _, _, _)
go_enum_pass(props, i, title, processed) ==
    IF i > Len(props) THEN processed
    ELSE go_enum_pass(props, i + 1, title,
            IF "enum" \in DOMAIN props[i][2]
            THEN processed \cup {title \o to_go_field_name(props[i][1])}
            ELSE processed)

\* one pass of _get_go_type over the properties of schema
RECURSIVE go_types_pass(_, _, _)
go_types_pass(props, i, w) ==
    IF i > Len(props) \/ w.raised THEN w
    ELSE go_types_pass(props, i + 1, get_go_type(props[i][2], w))

\* GoGenerator._generate_struct_only(schema, schema_file, ref_resolver,
\* processed_types): the early returns, processed_types.add(title), and
\* the loop over the properties with an inline enum, and the two passes
\* over the properties
generate_struct_only(ctx, schema, t) ==
    Let(GoTitle(schema), LAMBDA title :
    Let(t.w.rr, LAMBDA rr :
        IF title \in t.processed
           /\ title # (IF "title" \in DOMAIN schema THEN schema.title ELSE <<>>)
        THEN t
        ELSE IF \E i \in 1..Len(rr.external_refs) :
                   /\ ~SameFile(rr.external_refs[i][2], ctx.schema_file)
                   /\ DHas(rr.external_ref_types, rr.external_refs[i][2])
                   /\ DGet(rr.external_ref_types, rr.external_refs[i][2]) = title
        THEN t
        ELSE IF "ref" \in DOMAIN schema /\ IsExternalRef(schema.ref)
                /\ basename(ctx.schema_file) # basename(schema.ref)
        THEN t
        ELSE IF DHas(rr.definition_to_external_map, title)
                /\ basename(ctx.schema_file) #
                       basename(DGet(rr.definition_to_external_map, title))
        THEN t
        ELSE Let([t EXCEPT !.processed =
                    go_enum_pass(Properties(schema), 1, title,
                                 @ \cup {title})], LAMBDA t1 :
                 IF "enum" \in DOMAIN schema THEN t1
                 ELSE [t1 EXCEPT !.w =
                         go_types_pass(Properties(schema), 1,
                             go_types_pass(Properties(schema), 1, t1.w))])))

\* type_callback of GoGenerator.generate (lines 128-159)
go_type_callback(ctx, sch, t) ==
    Let(IF "title" \in DOMAIN sch
        THEN SelectSeq(sch.title, LAMBDA c : c # " ") ELSE <<>>,
        LAMBDA type_title :
        IF type_title \in ctx.types_to_import THEN t
        ELSE IF ctx.is_main /\ "ref" \in DOMAIN sch /\ IsExternalRef(sch.ref)
        THEN t
        ELSE IF ctx.is_main /\ "title" \in DOMAIN sch
                /\ DHas(t.w.rr.definition_to_external_map, sch.title)
        THEN t
        ELSE IF ~ctx.is_main /\ type_title # ctx.title
                /\ ~StartsWith(type_title, ctx.title)
        THEN t
        ELSE generate_struct_only(ctx, sch, t))

(* ------------------------------------------------------------------ *)
(* util/schema_helpers.py: the shared traversal                       *)
(* A traversal threads  t = [processed, w, calls, file, resolver]:    *)
(* processed_types, the resolver with the read counts, the callback   *)
(* invocations, the file of the schema traversed, and whether         *)
(* ref_resolver is given (FALSE: it is None).                         *)
(* ------------------------------------------------------------------ *)
\* schema.copy() with schema["title"] = title
WithTitle(schema, title) ==
    [k \in DOMAIN schema \cup {"title"} |->
        IF k = "title" THEN title ELSE schema[k]]

\* the type_callback a generator hands to the traversal: that of
\* GoGenerator.generate, or one that only returns text
type_callback(ctx, sch, t) ==
    IF ctx.kind = "go" THEN go_type_callback(ctx, sch, t) ELSE t

\* type_callback(sch, name): the invocation is recorded, then the callback
\* runs (it may add to processed_types and use the resolver)
\* known: the name was in processed_types when the traversal came to it
Invoke(ctx, sch, name, origin, key, known, t) ==
    type_callback(ctx, sch, [t EXCEPT !.calls = Append(@,
                  [name |-> name, node |-> sch, origin |-> origin, key |-> key,
                   file |-> t.file, known |-> known])])

\* definition_step without the look into processed_types: a definition is
\* handed to the callback whether or not its name is in the set
definition_step_unguarded(def_name, def_schema, t, ctx) ==
    Let([t EXCEPT !.processed = @ \cup {def_name}], LAMBDA t1 :
        IF "ref" \in DOMAIN def_schema /\ t.resolver
           /\ DHas(t.w.rr.definition_to_external_map, def_name)
        THEN t1
        ELSE Invoke(ctx, WithTitle(def_schema, def_name), def_name,
                    "definition", def_name, def_name \in t.processed, t1))

\* the body of the loop over schema["definitions"] (lines 62-82)
definition_step(def_name, def_schema, t, ctx) ==
    IF def_name \in t.processed THEN t
    ELSE Let([t EXCEPT !.processed = @ \cup {def_name}], LAMBDA t1 :
             IF "ref" \in DOMAIN def_schema /\ t.resolver
                /\ DHas(t.w.rr.definition_to_external_map, def_name)
             THEN t1
             ELSE IF "ref" \in DOMAIN def_schema /\ t.resolver
             THEN Let(resolve_ref(t1.w, def_schema.ref, 1), LAMBDA res :
                      Invoke(ctx,
                             WithTitle(IF res.ok THEN res.val ELSE def_schema,
                                       def_name),
                             def_name, "definition", def_name,
                             def_name \in t.processed,
                             [t1 EXCEPT !.w = res.w]))
             ELSE Invoke(ctx, WithTitle(def_schema, def_name), def_name,
                         "definition", def_name, def_name \in t.processed, t1))

\* the name lines 90-96 derive from the pointer of a property
ref_type_name(ref_path) ==
    IF IsLocalRef(ref_path) THEN basename(ref_path)
    ELSE IF IsExternalRef(ref_path) THEN to_pascal_case(splitext(basename(ref_path)))
    ELSE <<>>

\* the nested type named by the property name as written
nested_step_raw_name(prop_name, resolved_schema, type_name0, t, ctx) ==
    IF ("type" \in DOMAIN resolved_schema /\ resolved_schema.type = "object"
            /\ "properties" \in DOMAIN resolved_schema)
       \/ "properties" \in DOMAIN resolved_schema
    THEN Let(IF type_name0 = <<>> THEN prop_name
             ELSE type_name0, LAMBDA type_name :
             IF type_name \in t.processed THEN t
             ELSE Invoke(ctx,
                         IF "title" \notin DOMAIN resolved_schema
                         THEN WithTitle(resolved_schema, type_name)
                         ELSE resolved_schema,
                         type_name, "property", prop_name,
                         type_name \in t.processed,
                         [t EXCEPT !.processed = @ \cup {type_name}]))
    ELSE t

\* lines 101-113: a (resolved) schema with properties is handed to the
\* callback under type_name, or under the property's name in PascalCase
nested_step(prop_name, resolved_schema, type_name0, t, ctx) ==
    IF ("type" \in DOMAIN resolved_schema /\ resolved_schema.type = "object"
            /\ "properties" \in DOMAIN resolved_schema)
       \/ "properties" \in DOMAIN resolved_schema
    THEN Let(IF type_name0 = <<>> THEN to_pascal_case(prop_name)
             ELSE type_name0, LAMBDA type_name :
             IF type_name \in t.processed THEN t
             ELSE Invoke(ctx,
                         IF "title" \notin DOMAIN resolved_schema
                         THEN WithTitle(resolved_schema, type_name)
                         ELSE resolved_schema,
                         type_name, "property", prop_name,
                         type_name \in t.processed,
                         [t EXCEPT !.processed = @ \cup {type_name}]))
    ELSE t

\* the body of the loop over schema["properties"] (lines 84-113)
property_step(prop_name, prop_schema, t, ctx) ==
    IF "ref" \in DOMAIN prop_schema /\ t.resolver
    THEN Let(resolve_ref(t.w, prop_schema.ref, 1), LAMBDA res :
             IF res.ok
             THEN IF ref_type_name(prop_schema.ref) \in t.processed
                  THEN [t EXCEPT !.w = res.w]
                  ELSE nested_step(prop_name, res.val,
                                   ref_type_name(prop_schema.ref),
                                   [t EXCEPT !.w = res.w], ctx)
             ELSE nested_step(prop_name, prop_schema, <<>>,
                              [t EXCEPT !.w = res.w], ctx))
    ELSE nested_step(prop_name, prop_schema, <<>>, t, ctx)

\* the loop over schema["definitions"] (lines 61-82), from item i on
RECURSIVE def_loop(_, _, _, _)
def_loop(defs, i, t, ctx) ==
    IF i > Len(defs) \/ t.w.raised THEN t
    ELSE def_loop(defs, i + 1,
                  definition_step(defs[i][1], defs[i][2], t, ctx), ctx)

\* the loop over schema["properties"] (lines 84-113), from item i on
RECURSIVE prop_loop(_, _, _, _)
prop_loop(props, i, t, ctx) ==
    IF i > Len(props) \/ t.w.raised THEN t
    ELSE prop_loop(props, i + 1,
                   property_step(props[i][1], props[i][2], t, ctx), ctx)

\* the two loops in the other order: the properties, then the definitions
properties_then_definitions(schema, t0, ctx) ==
    def_loop(Definitions(schema), 1,
             prop_loop(Properties(schema), 1, t0, ctx), ctx)

\* process_definitions_and_nested_types(schema, processed_types,
\* ref_resolver, type_callback)
process_definitions_and_nested_types(schema, t0, ctx) ==
    prop_loop(Properties(schema), 1,
              def_loop(Definitions(schema), 1, t0, ctx), ctx)

(* ------------------------------------------------------------------ *)
(* generators/typescript.py: the traversal of TypeScriptGenerator     *)
(* ------------------------------------------------------------------ *)
\* the body of the loop over schema_obj["definitions"] (lines 78-100): a
\* definition that points outside the document or is mapped to an
\* external document is only added to processed_set; any other is handed
\* to the callback as written, under its own name
ts_definition_step(def_name, def_schema, t, ctx) ==
    IF def_name \in t.processed THEN t
    ELSE Let([t EXCEPT !.processed = @ \cup {def_name}], LAMBDA t1 :
             IF "ref" \in DOMAIN def_schema /\ IsExternalRef(def_schema.ref)
             THEN t1
             ELSE IF t.resolver
                     /\ DHas(t.w.rr.definition_to_external_map, def_name)
             THEN t1
             ELSE Invoke(ctx, WithTitle(def_schema, def_name), def_name,
                         "definition", def_name, FALSE, t1))

\* the body of the loop over schema_obj["properties"] (lines 104-138): a
\* property that points outside the document is skipped, any other is
\* treated as the shared traversal treats it
ts_property_step(prop_name, prop_schema, t, ctx) ==
    IF "ref" \in DOMAIN prop_schema /\ IsExternalRef(prop_schema.ref)
    THEN t
    ELSE property_step(prop_name, prop_schema, t, ctx)

\* the loop over schema_obj["definitions"], from item i on
RECURSIVE ts_def_loop(_, _, _, _)
ts_def_loop(defs, i, t, ctx) ==
    IF i > Len(defs) THEN t
    ELSE ts_def_loop(defs, i + 1,
                     ts_definition_step(defs[i][1], defs[i][2], t, ctx), ctx)

\* the loop over schema_obj["properties"], from item i on
RECURSIVE ts_prop_loop(_, _, _, _)
ts_prop_loop(props, i, t, ctx) ==
    IF i > Len(props) THEN t
    ELSE ts_prop_loop(props, i + 1,
                      ts_property_step(props[i][1], props[i][2], t, ctx), ctx)

\* process_ts_defs_callback(schema_obj, processed_set, ref_res, type_cb)
process_ts_defs_callback(schema_obj, t0, ctx) ==
    ts_prop_loop(Properties(schema_obj), 1,
                 ts_def_loop(Definitions(schema_obj), 1, t0, ctx), ctx)

(* ------------------------------------------------------------------ *)
(* generators/go.py: generate                                         *)
(* ------------------------------------------------------------------ *)
\* the type names GoGenerator.generate and _analyze_types_in_file mark as
\* imported: those of the tracked external documents other than the file
\* being generated, those the properties point at, and those the mapped
\* definitions point at
go_types_to_import(schema, sf, rr) ==
    LET refs  == rr.external_refs
        types == rr.external_ref_types
        props == Properties(schema)
        defs  == Definitions(schema)
        path(ref_path) == join(dirname(base_path), ref_path)
    IN  {DGet(types, refs[i][2]) : i \in
            {k \in 1..Len(refs) : /\ ~SameFile(refs[k][2], sf)
                                  /\ DHas(types, refs[k][2])
                                  /\ DGet(types, refs[k][2]) # <<>>}}
        \cup
        {DGet(types, path(props[i][2].ref)) : i \in
            {k \in 1..Len(props) : /\ "ref" \in DOMAIN props[k][2]
                                   /\ IsExternalRef(props[k][2].ref)
                                   /\ DHas(types, path(props[k][2].ref))}}
        \cup
        {DGet(types, path(DGet(rr.definition_to_external_map, defs[i][1]))) :
            i \in {k \in 1..Len(defs) :
                     /\ "ref" \in DOMAIN defs[k][2]
                     /\ DHas(rr.definition_to_external_map, defs[k][1])
                     /\ DHas(types,
                          path(DGet(rr.definition_to_external_map, defs[k][1])))}}

\* _analyze_imports_needed: every property that is a pointer is resolved
RECURSIVE go_analyze_imports(_, _, _)
go_analyze_imports(props, i, w) ==
    IF i > Len(props) \/ w.raised THEN w
    ELSE go_analyze_imports(props, i + 1,
            IF "ref" \in DOMAIN props[i][2]
            THEN resolve_or_raise(w, props[i][2].ref) ELSE w)

\* GoGenerator.generate(schema, package, schema_file, ref_resolver, is_main,
\* referenced_by): the traversal state it ends in.  An exception out of
\* the analysis of the imports leaves processed_types empty; one out of
\* the traversal leaves out the root struct.
go_generate(schema, sf, is_main, w, calls0) ==
    Let([kind |-> "go", schema_file |-> sf, is_main |-> is_main,
         title |-> GoTitle(schema),
         types_to_import |-> go_types_to_import(schema, sf, w.rr)],
        LAMBDA ctx :
    Let(go_analyze_imports(Properties(schema), 1, w), LAMBDA w1 :
        IF w1.raised
        THEN [processed |-> {}, w |-> w1, calls |-> calls0, file |-> sf,
              resolver |-> TRUE]
        ELSE Let(process_definitions_and_nested_types(schema,
                     [processed |-> {ctx.title}, w |-> w1,
                      calls |-> calls0, file |-> sf, resolver |-> TRUE],
                     ctx), LAMBDA t :
                 IF t.w.raised THEN t
                 ELSE generate_struct_only(ctx, schema, t))))

(* ------------------------------------------------------------------ *)
(* main.py generate_types, after closure discovery                    *)
(* ------------------------------------------------------------------ *)
\* args.output: "o/a.go"
output_file == <<"o","/","a",".","g","o">>

\* the artifact path of the external schema at schema_path (lines 66-90)
ext_output_file(schema_path) ==
    join(dirname(output_file),
         splitext(basename(schema_path)) \o <<".","g","o">>)

\* lines 38-61: the main artifact is generated and stored under
\* output_file; then get_external_schemas() lists the documents that get
\* an artifact of their own.  It raises KeyError for a tracked path that
\* was never loaded: generate_types then returns nothing, and the dict it
\* was filling is lost.  So it is when the generator raises.
GenerateMain ==
    /\ pc = "generate_main"
    /\ \E t \in {go_generate(root_schema, schema_file, TRUE,
                            World(ref_resolver, reads), calls)} :
       \E ext \in {get_external_schemas(t.w.rr)} :
           /\ ref_resolver' = t.w.rr
           /\ reads' = t.w.reads
           /\ calls' = t.calls
           /\ processed_types' = [initial |-> {}, final |-> t.processed]
           /\ output_files' =
                 IF ext.ok /\ ~t.w.raised
                 THEN DPut(output_files, output_file,
                           [source |-> schema_file, is_main |-> TRUE])
                 ELSE <<>>
           /\ pending' = IF ext.ok /\ ~t.w.raised THEN ext.val ELSE <<>>
           /\ pc' = IF ext.ok /\ ~t.w.raised THEN "generate_external"
                    ELSE "failed"
    /\ UNCHANGED <<root_schema, stack, warnings, api>>

\* lines 64-105: one iteration of the loop over the external schemas.  An
\* exception out of the generator ends generate_types: it returns
\* nothing, and the dict it was filling is lost
GenerateExternal ==
    /\ pc = "generate_external"
    /\ pending # <<>>
    /\ \E schema_path \in {pending[1][1]} :
       \E t \in {go_generate(pending[1][2][1], schema_path, FALSE,
                            World(ref_resolver, reads), calls)} :
           /\ ref_resolver' = t.w.rr
           /\ reads' = t.w.reads
           /\ calls' = t.calls
           /\ processed_types' = [initial |-> {}, final |-> t.processed]
           /\ output_files' =
                 IF t.w.raised THEN <<>>
                 ELSE DPut(output_files, ext_output_file(schema_path),
                           [source |-> schema_path, is_main |-> FALSE])
           /\ pending' = IF t.w.raised THEN <<>> ELSE Tail(pending)
           /\ pc' = IF t.w.raised THEN "failed" ELSE pc
    /\ UNCHANGED <<root_schema, stack, warnings, api>>

\* generate_types returns output_files
GenerateReturn ==
    /\ pc = "generate_external"
    /\ pending = <<>>
    /\ pc' = "done"
    /\ UNCHANGED <<root_schema, ref_resolver, reads, stack, warnings, calls,
                   output_files, pending, processed_types, api>>

(* ------------------------------------------------------------------ *)
(* One traversal with a processed_types of the caller's               *)
(* ------------------------------------------------------------------ *)
\* the names a caller may have put into processed_types
InitialNames == {N_Foo, N_Bar, N_B, N_Message}

\* process_definitions_and_nested_types(root_schema, processed_types,
\* ref_resolver, type_callback) called once: on a resolver just
\* constructed or after closure discovery, with GoGenerator's callback,
\* with a callback that only returns text, or with ref_resolver = None
Traverse ==
    /\ pc \in {"start", "generate_main"}
    /\ \E p0 \in SUBSET InitialNames, kind \in {"go", "text", "no_resolver"} :
       \E ctx \in {[kind |-> kind, schema_file |-> schema_file,
                    is_main |-> TRUE, title |-> GoTitle(root_schema),
                    types_to_import |->
                        go_types_to_import(root_schema, schema_file,
                                           ref_resolver)]} :
       \E t \in {process_definitions_and_nested_types(root_schema,
                    [processed |-> p0, w |-> World(ref_resolver, reads),
                     calls |-> <<>>, file |-> schema_file,
                     resolver |-> kind # "no_resolver"],
                    ctx)} :
           /\ ref_resolver' = t.w.rr
           /\ reads' = t.w.reads
           /\ calls' = t.calls
           /\ processed_types' = [initial |-> p0, final |-> t.processed]
    /\ pc' = "traversed"
    /\ UNCHANGED <<root_schema, stack, warnings, output_files, pending, api>>

\* process_ts_defs_callback(root_schema, processed_set, ref_res, type_cb)
\* called once with the run's resolver and a callback that only returns
\* text: on a resolver just constructed or after closure discovery
TraverseTs ==
    /\ pc \in {"start", "generate_main"}
    /\ \E p0 \in SUBSET InitialNames :
       \E ctx \in {[kind |-> "text", schema_file |-> schema_file,
                    is_main |-> TRUE, title |-> GoTitle(root_schema),
                    types_to_import |-> {}]} :
       \E t \in {process_ts_defs_callback(root_schema,
                    [processed |-> p0, w |-> World(ref_resolver, reads),
                     calls |-> <<>>, file |-> schema_file,
                     resolver |-> TRUE],
                    ctx)} :
           /\ ref_resolver' = t.w.rr
           /\ reads' = t.w.reads
           /\ calls' = t.calls
           /\ processed_types' = [initial |-> p0, final |-> t.processed]
    /\ pc' = "traversed_ts"
    /\ UNCHANGED <<root_schema, stack, warnings, output_files, pending, api>>

NextTraversal ==
    \/ MainLoad
    \/ PreprocessStep
    \/ PreprocessReturn
    \/ Traverse
    \/ TraverseTs

SpecTraversal == Init /\ [][NextTraversal]_vars

(* ------------------------------------------------------------------ *)
(* The resolver's methods called directly                             *)
(* ------------------------------------------------------------------ *)
\* the pointers of the calls
ResolvePointers == {R_b, R_bschema, R_m, R_x, R_Foo, R_Bar, R_Baz, R_root, R_self, R_Loop,
                    R_Gone}
TrackPointers   == {R_b, R_bschema, R_m}

\* SchemaRefResolver(schema_file, root_schema) for a root whose pointers
\* are those of its definitions
InitResolver ==
    /\ root_schema \in {d \in RootDocs : Properties(d) = <<>>}
    /\ pc = "api"
    /\ ref_resolver = NewResolver
    /\ reads = <<>>
    /\ stack = <<>>
    /\ warnings = {}
    /\ calls = <<>>
    /\ output_files = <<>>
    /\ pending = <<>>
    /\ processed_types = [initial |-> {}, final |-> {}]
    /\ api = NoCalls

\* the number of file reads in rd
RECURSIVE TotalReads(_)
TotalReads(rd) ==
    IF rd = <<>> THEN 0 ELSE rd[1][2] + TotalReads(Tail(rd))

\* ref_resolver.resolve_ref(ref_path)
CallResolveRef ==
    /\ pc = "api"
    /\ api.n < MaxCalls
    /\ \E ref_path \in ResolvePointers :
       \E res \in {resolve_ref(World(ref_resolver, reads), ref_path, 1)} :
           /\ ref_resolver' = res.w.rr
           /\ reads' = res.w.reads
           /\ api' = [n |-> api.n + 1,
                      prev |-> api.last,
                      last |-> [op |-> "resolve_ref", ptr |-> ref_path,
                                ok |-> res.ok, val |-> res.val,
                                loads |-> TotalReads(res.w.reads)
                                            - TotalReads(reads),
                                again |-> DHas(api.first, ref_path),
                                err |-> res.err,
                                before |-> ref_resolver],
                      first |-> IF res.ok /\ ~DHas(api.first, ref_path)
                                THEN DPut(api.first, ref_path, res.val)
                                ELSE api.first]
    /\ UNCHANGED <<root_schema, pc, stack, warnings, calls, output_files,
                   pending, processed_types>>

\* ref_resolver.add_external_ref(ref_path)
CallAddExternalRef ==
    /\ pc = "api"
    /\ api.n < MaxCalls
    /\ \E ref_path \in TrackPointers :
       \E w \in {add_external_ref(World(ref_resolver, reads), ref_path)} :
           /\ ref_resolver' = w.rr
           /\ api' = [api EXCEPT !.n = @ + 1,
                                 !.prev = api.last,
                                 !.last = [op |-> "add_external_ref",
                                           ptr |-> ref_path,
                                           before |-> ref_resolver]]
    /\ UNCHANGED <<root_schema, pc, reads, stack, warnings, calls,
                   output_files, pending, processed_types>>

NextResolver ==
    \/ CallResolveRef
    \/ CallAddExternalRef

SpecResolver == InitResolver /\ [][NextResolver]_vars

(* ------------------------------------------------------------------ *)
(* to_pascal_case applied to one name, and to its own result          *)
(* ------------------------------------------------------------------ *)
\* the characters names are made of: a lower-case and two upper-case
\* letters, one of them the U the resolver drops, the two separators
\* to_pascal_case knows, and a digit
NameChars == {"a", "B", "U", "_", "-", "1"}

model_details == <<"m","o","d","e","l","_","d","e","t","a","i","l","s">>

\* the arguments of to_pascal_case
Names ==
    UNION {[1..n -> NameChars] : n \in 0..MaxNameLen} \cup {model_details}

InitNames ==
    /\ root_schema \in {d \in RootDocs : /\ Properties(d) = <<>>
                                         /\ Definitions(d) = <<>>}
    /\ pc = "names"
    /\ ref_resolver = NewResolver
    /\ reads = <<>>
    /\ stack = <<>>
    /\ warnings = {}
    /\ calls = <<>>
    /\ output_files = <<>>
    /\ pending = <<>>
    /\ processed_types = [initial |-> {}, final |-> {}]
    /\ api \in {[op |-> "none", name |-> x] : x \in Names}

\* to_pascal_case(name), then to_pascal_case of what it returned
CallToPascalCase ==
    /\ pc = "names"
    /\ \E once \in {to_pascal_case(api.name)} :
           api' = [op |-> "to_pascal_case", name |-> api.name,
                   once |-> once, twice |-> to_pascal_case(once)]
    /\ pc' = "named"
    /\ UNCHANGED <<root_schema, ref_resolver, reads, stack, warnings, calls,
                   output_files, pending, processed_types>>

\* the type name resolve_ref and add_external_ref derive for the pointer
\* <name>.json
CallExternalTypeName ==
    /\ pc = "names"
    /\ \E ref_path \in {api.name \o <<".","j","s","o","n">>} :
           api' = [op |-> "external_type_name", name |-> api.name,
                   ptr |-> ref_path,
                   type_name |-> external_type_name(ref_path)]
    /\ pc' = "named"
    /\ UNCHANGED <<root_schema, ref_resolver, reads, stack, warnings, calls,
                   output_files, pending, processed_types>>

NextNames ==
    \/ CallToPascalCase
    \/ CallExternalTypeName

SpecNames == InitNames /\ [][NextNames]_vars

Next ==
    \/ MainLoad
    \/ PreprocessStep
    \/ PreprocessReturn
    \/ GenerateMain
    \/ GenerateExternal
    \/ GenerateReturn

Spec == Init /\ [][Next]_vars

(* ------------------------------------------------------------------ *)
(* Properties                                                         *)
(* ------------------------------------------------------------------ *)
\* C1: one call of process_definitions_and_nested_types, whatever the
\* root schema and whatever processed_types holds at the start, invokes
\* type_callback at most once per type name, and never for a name that was
\* in processed_types when the traversal came to it.
C1_OncePerName ==
    pc = "traversed" =>
        /\ \A i \in 1..Len(calls) :
              /\ ~calls[i].known
              /\ calls[i].name \notin processed_types.initial
        /\ \A i, j \in 1..Len(calls) :
              calls[i].name = calls[j].name => i = j

\* Bar is in processed_types at the start and is a definition of the
\* root: the callback ran for the property message alone
C1_Witness ==
    /\ pc = "traversed"
    /\ DHas(Definitions(root_schema), N_Bar)
    /\ N_Bar \in processed_types.initial
    /\ Len(calls) = 1
    /\ calls[1].name = N_Message

\* C2: in one run every distinct path is read from the file system at most
\* once, the read of the SchemaLoader constructor and the read of
\* load_schema() both counted.
C2_ReadOnce ==
    \A i \in 1..Len(reads) : reads[i][2] <= 1

\* C3: when resolve_ref(p) has succeeded once, a later resolve_ref(p) with
\* the same text succeeds, returns an equal document and loads no file.
C3_SecondResolveCached ==
    (api.last.op = "resolve_ref" /\ api.last.again) =>
        /\ api.last.ok
        /\ api.last.val = DGet(api.first, api.last.ptr)
        /\ api.last.loads = 0

\* an external pointer was resolved from its file and then resolved again
C3_Witness ==
    /\ api.last.op = "resolve_ref"
    /\ api.last.again
    /\ IsExternalRef(api.last.ptr)
    /\ TotalReads(reads) > 0

\* C4: when the root has the definition Foo = {"$ref": "./b.schema.json"},
\* then after closure discovery get_type_for_path gives one name for
\* "#/definitions/Foo" and for "./b.schema.json": the name derived from
\* the file name, "B".
C4_AliasTypeName ==
    (pc = "generate_main" /\ DHas(Definitions(root_schema), N_Foo)) =>
        /\ get_type_for_path(ref_resolver, R_Foo)
              = get_type_for_path(ref_resolver, R_bschema)
        /\ get_type_for_path(ref_resolver, R_bschema) = N_B

\* the definitions of the document at file whose whole body is a pointer
\* to another file
AliasDefinitions(file) ==
    IF FileAt(file).kind # "doc" THEN {}
    ELSE {Definitions(FileAt(file).doc)[i][1] : i \in
            {k \in 1..Len(Definitions(FileAt(file).doc)) :
                /\ DOMAIN Definitions(FileAt(file).doc)[k][2] = {"ref"}
                /\ IsExternalRef(Definitions(FileAt(file).doc)[k][2].ref)}}

\* C5: a definition whose body is only a pointer to another file is an
\* alias: the traversal of its document never hands a descriptor to the
\* callback under that definition's name.
C5_AliasNotYielded ==
    \A i \in 1..Len(calls) :
        calls[i].name \notin AliasDefinitions(calls[i].file)

\* the pointers anywhere in a node: its own, and those in its properties,
\* its definitions and its items
RECURSIVE PointersIn(_)
PointersIn(node) ==
    (IF "ref" \in DOMAIN node THEN {node.ref} ELSE {})
    \cup UNION {PointersIn(Properties(node)[i][2]) :
                    i \in 1..Len(Properties(node))}
    \cup UNION {PointersIn(Definitions(node)[i][2]) :
                    i \in 1..Len(Definitions(node))}
    \cup (IF "items" \in DOMAIN node THEN PointersIn(node.items) ELSE {})

\* the files the document at path points at, relative to its own directory
Targets(path) ==
    IF FileAt(path).kind # "doc" THEN {}
    ELSE {Normalize(join(dirname(path), r)) :
            r \in {q \in PointersIn(FileAt(path).doc) : IsExternalRef(q)}}

\* paths with everything reachable from them
RECURSIVE Closure(_)
Closure(paths) ==
    IF UNION {Targets(q) : q \in paths} \subseteq paths THEN paths
    ELSE Closure(paths \cup UNION {Targets(q) : q \in paths})

\* C6: after closure discovery get_external_schemas() returns exactly the
\* external documents reachable from the root through any chain of
\* pointers in properties, definitions, array items and nested objects.
C6_ClosureComplete ==
    pc = "generate_main" =>
        /\ get_external_schemas(ref_resolver).ok
        /\ {Normalize(get_external_schemas(ref_resolver).val[i][1]) :
               i \in 1..Len(get_external_schemas(ref_resolver).val)}
              = Closure(Targets(schema_file))

\* C7: closure discovery does not re-enter a document it is already
\* processing: no two active calls of _preprocess_schema_references work
\* on the same document.
C7_NoReentry ==
    \A i, j \in 1..Len(stack) :
        stack[i].schema = stack[j].schema => i = j

\* the pointers of the properties and the definitions of schema that
\* resolve_ref cannot resolve
Unresolvable(schema) ==
    {q \in {PreprocessItems(schema)[i][2].ref : i \in
              {k \in 1..Len(PreprocessItems(schema)) :
                  "ref" \in DOMAIN PreprocessItems(schema)[k][2]}} :
        ~resolve_ref(World(ref_resolver, reads), q, 1).ok}

\* C8: when a pointer of a document cannot be resolved, the generation of
\* that document ends in an error: it is not completed, and no descriptor
\* is built from the unresolved node.
C8_UnresolvedEndsInError ==
    /\ \A i \in 1..Len(calls) : "ref" \notin DOMAIN calls[i].node
    /\ pc \in {"generate_external", "done"} => Unresolvable(root_schema) = {}

\* C9: a finished run has the main artifact under the requested path and,
\* for every external document it loaded, an artifact of that document
\* under a path of its own.
C9_OneArtifactPerDocument ==
    pc = "done" =>
        /\ DHas(output_files, output_file)
        /\ DGet(output_files, output_file).is_main
        /\ \A k \in DKeys(ref_resolver.loaded_schemas) :
              \E i \in 1..Len(output_files) :
                  /\ ~output_files[i][2].is_main
                  /\ output_files[i][1] # output_file
                  /\ Normalize(output_files[i][2].source) = Normalize(k)

\* node is a pointer that leads out of doc: to another file, or to a
\* definition of doc that does
RECURSIVE LeadsOutside(_, _)
LeadsOutside(doc, node) ==
    /\ "ref" \in DOMAIN node
    /\ \/ IsExternalRef(node.ref)
       \/ /\ IsLocalRef(node.ref)
          /\ DHas(Definitions(doc), basename(node.ref))
          /\ LeadsOutside(doc, DGet(Definitions(doc), basename(node.ref)))

\* C10: a property whose pointer leads to another document yields no
\* descriptor in the document that holds the property.
C10_ExternalPropertyNotYielded ==
    \A i \in 1..Len(calls) :
        calls[i].origin = "property" =>
            ~LeadsOutside(FileAt(calls[i].file).doc,
                          DGet(Properties(FileAt(calls[i].file).doc),
                               calls[i].key))

\* node describes a type of its own: an object with properties, or an enum
IsTypeNode(node) ==
    "properties" \in DOMAIN node \/ "enum" \in DOMAIN node

\* the nodes directly below node: the values of its properties and of its
\* definitions, and its items
ChildNodes(node) ==
    {Properties(node)[i][2] : i \in 1..Len(Properties(node))}
    \cup {Definitions(node)[i][2] : i \in 1..Len(Definitions(node))}
    \cup (IF "items" \in DOMAIN node THEN {node.items} ELSE {})

\* the type nodes anywhere below node
RECURSIVE TypesIn(_)
TypesIn(node) ==
    {c \in ChildNodes(node) : IsTypeNode(c)}
    \cup UNION {TypesIn(c) : c \in ChildNodes(node)}

\* node without its title
SansTitle(node) == [k \in DOMAIN node \ {"title"} |-> node[k]]

\* C11: for a document without external pointers, the traversal yields a
\* descriptor for every nested object and every enum of the document:
\* inline enum properties, inline objects inside array items and inline
\* objects inside inline objects included.
C11_EveryNestedTypeYielded ==
    (/\ pc \in {"generate_external", "done"}
     /\ \A q \in PointersIn(root_schema) : ~IsExternalRef(q)) =>
        \A n \in TypesIn(root_schema) :
            \E i \in 1..Len(calls) :
                /\ calls[i].file = schema_file
                /\ SansTitle(calls[i].node) = SansTitle(n)

\* the position of key k in the dict d
PosOf(d, k) == CHOOSE i \in 1..Len(d) : d[i][1] = k

\* the place of an invocation in the source order of the root: the
\* definitions in their order, then the properties in theirs
SourceRank(call) ==
    IF call.origin = "definition"
    THEN PosOf(Definitions(root_schema), call.key)
    ELSE Len(Definitions(root_schema))
             + PosOf(Properties(root_schema), call.key)

\* C12: in the sequence a traversal yields, every descriptor from a
\* definition precedes every descriptor from a property, the descriptors
\* from definitions are in the source order of the definitions and those
\* from properties in the source order of the properties.
C12_DefinitionsThenProperties ==
    pc = "traversed" =>
        \A i, j \in 1..Len(calls) :
            i < j => SourceRank(calls[i]) < SourceRank(calls[j])

\* a definition and a property of one root have both been yielded
C12_Witness ==
    /\ pc = "traversed"
    /\ Len(calls) = 2
    /\ calls[1].origin = "definition"
    /\ calls[2].origin = "property"

\* the root has no definitions and exactly one property, an inline object
\* with nested properties and no pointer
OneInlineObjectProperty ==
    /\ Definitions(root_schema) = <<>>
    /\ Len(Properties(root_schema)) = 1
    /\ "ref" \notin DOMAIN Properties(root_schema)[1][2]
    /\ "properties" \in DOMAIN Properties(root_schema)[1][2]
    /\ "type" \in DOMAIN Properties(root_schema)[1][2]
    /\ Properties(root_schema)[1][2].type = "object"

\* C13: for a root with title T, no definitions and exactly one property p
\* that is an inline object with nested properties, the generation of the
\* document produces exactly two types: PascalCase(p), handed to the
\* callback, and T, the root itself.
C13_TwoDescriptors ==
    (pc \in {"generate_external", "done"} /\ OneInlineObjectProperty) =>
        /\ Len(calls) = 1
        /\ calls[1].name = to_pascal_case(Properties(root_schema)[1][1])
        /\ calls[1].file = schema_file
        /\ processed_types.final =
               {GoTitle(root_schema),
                to_pascal_case(Properties(root_schema)[1][1])}
        /\ Cardinality(processed_types.final) = 2
        /\ DKeys(output_files) = {output_file}

\* the root with the one property message has been generated
C13_Witness ==
    /\ pc = "done"
    /\ OneInlineObjectProperty
    /\ Properties(root_schema)[1][1] = <<"m","e","s","s","a","g","e">>
    /\ Len(calls) = 1
    /\ calls[1].name = N_Message

\* C14: to_pascal_case is idempotent, to_pascal_case(to_pascal_case(x)) =
\* to_pascal_case(x) for every string x, and to_pascal_case("model_details")
\* is "ModelDetails".
C14_PascalCaseIdempotent ==
    (pc = "named" /\ api.op = "to_pascal_case") =>
        /\ api.twice = api.once
        /\ api.name = model_details =>
               api.once = <<"M","o","d","e","l","D","e","t","a","i","l","s">>

\* to_pascal_case has been applied to "model_details" and to its result
C14_Witness ==
    /\ pc = "named"
    /\ api.op = "to_pascal_case"
    /\ api.name = model_details
    /\ api.once = <<"M","o","d","e","l","D","e","t","a","i","l","s">>
    /\ api.twice = api.once

\* the last call was resolve_ref on a local pointer whose name the root's
\* definitions do not hold
AbsentLocalPointer ==
    /\ pc = "api"
    /\ api.n > 0
    /\ api.last.op = "resolve_ref"
    /\ IsLocalRef(api.last.ptr)
    /\ ~DHas(Definitions(root_schema), basename(api.last.ptr))

\* C15: resolve_ref on a local pointer #/definitions/Name whose Name is
\* absent from the root's definitions (or when the root has no
\* definitions) ends in an error and leaves every map of the resolver as
\* it was.
C15_AbsentDefinitionFails ==
    AbsentLocalPointer =>
        /\ ~api.last.ok
        /\ ref_resolver = api.last.before
        /\ api.last.loads = 0

\* #/definitions/Bar has been resolved against a root that defines Foo only,
\* after a call that filled the resolver's maps
C15_Witness ==
    /\ AbsentLocalPointer
    /\ api.last.ptr = R_Bar
    /\ DKeys(Definitions(root_schema)) = {N_Foo}
    /\ api.last.before # NewResolver
    /\ ~api.last.ok

\* the last call was resolve_ref on a pointer that begins with "#" and not
\* with "#/definitions/"
OtherPointerForm ==
    /\ pc = "api"
    /\ api.n > 0
    /\ api.last.op = "resolve_ref"
    /\ ~IsLocalRef(api.last.ptr)
    /\ ~IsExternalRef(api.last.ptr)

\* C16: resolve_ref on a pointer that is neither #/definitions/<name> nor
\* an external relative path ends in an error, reads no file and changes
\* nothing in the resolver.
C16_OtherPointerFormFails ==
    OtherPointerForm =>
        /\ ~api.last.ok
        /\ api.last.val = NoValue
        /\ ref_resolver = api.last.before
        /\ api.last.loads = 0

\* #/properties/foo has been resolved by a resolver whose maps an earlier
\* call had filled
C16_Witness ==
    /\ OtherPointerForm
    /\ api.last.ptr = R_root
    /\ api.last.before.loaded_schemas # <<>>
    /\ ~api.last.ok

\* the last call was resolve_ref on an external pointer whose file is
\* missing or is not a JSON document
UnloadablePointer ==
    /\ pc = "api"
    /\ api.n > 0
    /\ api.last.op = "resolve_ref"
    /\ IsExternalRef(api.last.ptr)
    /\ FileAt(join(dirname(base_path), api.last.ptr)).kind # "doc"

\* C17: resolve_ref on an external pointer whose document cannot be loaded
\* returns an error and no document, and adds no entry to loaded_schemas,
\* external_refs or external_ref_types.
C17_LoadFailurePropagates ==
    UnloadablePointer =>
        /\ ~api.last.ok
        /\ api.last.val = NoValue
        /\ ref_resolver.loaded_schemas = api.last.before.loaded_schemas
        /\ ref_resolver.external_refs = api.last.before.external_refs
        /\ ref_resolver.external_ref_types = api.last.before.external_ref_types

\* x.json, which is read and does not parse, has been resolved
C17_Witness ==
    /\ UnloadablePointer
    /\ api.last.ptr = R_x
    /\ api.last.loads > 0
    /\ ~api.last.ok

\* C18: an external pointer that occurs inside an external document D is
\* resolved to the path obtained by joining the directory of D with the
\* pointer text, also when D lies in another directory than the root
\* document: whenever the resolver has loaded D and tracks a pointer that
\* occurs in D, the path it tracks for the pointer is that join.
C18_JoinedWithOwnDirectory ==
    \A i \in 1..Len(ref_resolver.loaded_schemas) :
        \A q \in {r \in PointersIn(ref_resolver.loaded_schemas[i][2]) :
                      IsExternalRef(r)} :
            DHas(ref_resolver.external_refs, q) =>
                Normalize(DGet(ref_resolver.external_refs, q))
                    = Normalize(join(dirname(ref_resolver.loaded_schemas[i][1]),
                                     q))

\* C19: a local pointer #/definitions/Name that occurs inside an external
\* document D is looked up in the definitions of D, the document being
\* processed, not in those of the run's root: when D is the next document
\* to generate and defines Name as a type, the resolver resolves the
\* pointer to D's definition.
C19_LocalPointerInOwnDocument ==
    (pc = "generate_external" /\ pending # <<>>) =>
        \A D \in {pending[1][2][1]} :
            \A q \in {r \in PointersIn(D) :
                        /\ IsLocalRef(r)
                        /\ DHas(Definitions(D), basename(r))
                        /\ "ref" \notin DOMAIN DGet(Definitions(D),
                                                    basename(r))} :
                /\ resolve_ref(World(ref_resolver, reads), q, 1).ok
                /\ resolve_ref(World(ref_resolver, reads), q, 1).val
                       = DGet(Definitions(D), basename(q))

\* the properties of the root that are pointers the resolver resolves
ResolvedPointerProperties ==
    {i \in 1..Len(Properties(root_schema)) :
        /\ "ref" \in DOMAIN Properties(root_schema)[i][2]
        /\ resolve_ref(World(ref_resolver, reads),
                       Properties(root_schema)[i][2].ref, 1).ok}

\* C20: for every property that is a pointer, the name the traversal uses
\* for the visited check and for the yielded descriptor is the resolver's
\* canonical name for the pointer, get_type_for_path, for local pointers,
\* alias definitions and external pointers alike.
C20_CandidateNameIsCanonical ==
    pc \in {"generate_external", "done"} =>
        /\ \A i \in ResolvedPointerProperties :
              ref_type_name(Properties(root_schema)[i][2].ref)
                  = get_type_for_path(ref_resolver,
                                      Properties(root_schema)[i][2].ref)
        /\ \A k \in 1..Len(calls) :
              (/\ calls[k].file = schema_file
               /\ calls[k].origin = "property"
               /\ "ref" \in DOMAIN DGet(Properties(root_schema), calls[k].key))
              => calls[k].name
                     = get_type_for_path(ref_resolver,
                           DGet(Properties(root_schema), calls[k].key).ref)

\* following the local pointers from the definition name of doc comes back
\* to a name already met
RECURSIVE ChainLoops(_, _, _)
ChainLoops(doc, name, seen) ==
    /\ DHas(Definitions(doc), name)
    /\ "ref" \in DOMAIN DGet(Definitions(doc), name)
    /\ IsLocalRef(DGet(Definitions(doc), name).ref)
    /\ \/ basename(DGet(Definitions(doc), name).ref) \in seen \cup {name}
       \/ ChainLoops(doc, basename(DGet(Definitions(doc), name).ref),
                     seen \cup {name})

\* the last call was resolve_ref on a local pointer whose chain of
\* definitions loops back on itself
LoopingPointer ==
    /\ pc = "api"
    /\ api.n > 0
    /\ api.last.op = "resolve_ref"
    /\ IsLocalRef(api.last.ptr)
    /\ ChainLoops(root_schema, basename(api.last.ptr), {})

\* C21: resolve_ref on a local definition whose pointer chain loops back on
\* itself ends with an error that reports the cycle, reached by noticing
\* the revisited name, and not by recursing until the interpreter's
\* recursion limit stops it.
C21_CycleDetected ==
    LoopingPointer =>
        /\ ~api.last.ok
        /\ api.last.err # "RecursionError"

\* the last call was resolve_ref on #/definitions/Name where the root
\* defines Name as a pointer to an external path
AliasPointer ==
    /\ pc = "api"
    /\ api.n > 0
    /\ api.last.op = "resolve_ref"
    /\ IsLocalRef(api.last.ptr)
    /\ DHas(Definitions(root_schema), basename(api.last.ptr))
    /\ "ref" \in DOMAIN DGet(Definitions(root_schema), basename(api.last.ptr))
    /\ IsExternalRef(DGet(Definitions(root_schema),
                          basename(api.last.ptr)).ref)

\* C22: when resolve_ref(#/definitions/Name) finds that the body of Name is
\* a pointer to an external path p, the alias Name -> p is recorded in
\* definition_to_external_map before p is resolved: it is there after the
\* call, also when resolving p failed.
C22_AliasRecordedFirst ==
    AliasPointer =>
        /\ DHas(ref_resolver.definition_to_external_map,
                basename(api.last.ptr))
        /\ DGet(ref_resolver.definition_to_external_map,
                basename(api.last.ptr))
               = DGet(Definitions(root_schema), basename(api.last.ptr)).ref

\* #/definitions/Gone, an alias of the missing m.json, has been resolved
\* for the first time: the call failed and the alias is recorded
C22_Witness ==
    /\ AliasPointer
    /\ api.last.ptr = R_Gone
    /\ ~api.last.ok
    /\ ~DHas(api.last.before.definition_to_external_map, N_Gone)
    /\ DHas(ref_resolver.definition_to_external_map, N_Gone)

\* C23: once closure discovery (_preprocess_schema_references) has
\* returned, no later step of the run, the generation of the main document
\* or of an external one, adds or changes an entry of loaded_schemas,
\* external_refs, external_ref_types or definition_to_external_map.
C23_ReadOnlyAfterDiscovery ==
    [][(pc \in {"generate_main", "generate_external"}) =>
           (ref_resolver' = ref_resolver)]_vars

\* the last two calls were add_external_ref(p) and then resolve_ref(p), for
\* an external pointer p whose document loads
TrackedThenResolved ==
    /\ pc = "api"
    /\ api.n > 1
    /\ api.prev.op = "add_external_ref"
    /\ api.last.op = "resolve_ref"
    /\ api.last.ptr = api.prev.ptr
    /\ IsExternalRef(api.last.ptr)
    /\ FileAt(join(dirname(base_path), api.last.ptr)).kind = "doc"

\* C24: for every external pointer p whose document loads,
\* add_external_ref(p) followed by resolve_ref(p) leaves the resolver in
\* exactly the state that resolve_ref(p) alone produces from the same
\* start: the same loaded documents, pointer-to-path entries and type
\* names.
C24_TrackThenResolve ==
    TrackedThenResolved =>
        ref_resolver
            = resolve_ref(World(api.prev.before, reads), api.last.ptr, 1).w.rr

\* b.json has been tracked and then resolved, which loaded it
C24_Witness ==
    /\ TrackedThenResolved
    /\ api.last.ptr = R_b
    /\ api.last.ok
    /\ api.last.loads > 0
    /\ api.prev.before = NewResolver

\* the canonical name of a file's base name: a leading U removed, split on
\* "_" and "-", the first letter of each segment capitalised and the rest
\* kept as written, concatenated
CanonicalName(base_name) ==
    to_pascal_case(IF StartsWith(base_name, <<"U">>) THEN Drop(base_name, 1)
                   ELSE base_name)

\* C25: the type name the resolver binds to an external document equals the
\* canonical name of the file's base name, the result to_pascal_case gives
\* for it once a leading U is removed.
C25_ExternalNameIsCanonical ==
    (pc = "named" /\ api.op = "external_type_name") =>
        api.type_name = CanonicalName(splitext(basename(api.ptr)))

\* C26: when the generation of one external document fails during a run,
\* the artifacts produced earlier in that run, the main artifact and the
\* earlier external ones, are kept for delivery: the failure does not
\* discard them.
C26_EarlierArtifactsKept ==
    [][(pc = "generate_external" /\ pc' = "failed") =>
           (\A i \in 1..Len(output_files) :
                DHas(output_files', output_files[i][1]))]_vars

\* C27: in every state reached by add_external_ref and resolve_ref calls,
\* failing calls included, every path recorded in external_refs has a
\* loaded document in loaded_schemas, so that get_external_schemas() does
\* not fail on a missing document.
C27_TrackedAreLoaded ==
    (pc = "api") =>
        /\ \A i \in 1..Len(ref_resolver.external_refs) :
               DHas(ref_resolver.loaded_schemas,
                    ref_resolver.external_refs[i][2])
        /\ get_external_schemas(ref_resolver).ok

\* the descriptors of a sequence of callback invocations: (name, node)
Descriptors(cs) == [i \in 1..Len(cs) |-> <<cs[i].name, cs[i].node>>]

\* the document has no pointer to another file
NoExternalPointers(doc) == \A q \in PointersIn(doc) : ~IsExternalRef(q)

\* the callback invocations of the shared traversal on the root document,
\* started from processed set p0 with the resolver rr
SharedCalls(p0, rr, rd) ==
    process_definitions_and_nested_types(root_schema,
        [processed |-> p0, w |-> World(rr, rd), calls |-> <<>>,
         file |-> schema_file, resolver |-> TRUE],
        [kind |-> "text", schema_file |-> schema_file, is_main |-> TRUE,
         title |-> GoTitle(root_schema), types_to_import |-> {}]).calls

\* C28: for a document with no external pointers, the TypeScript
\* generator's own traversal (process_ts_defs_callback) yields the same
\* sequence of (name, node) descriptors as the shared traversal
\* process_definitions_and_nested_types started from the same processed
\* set, definitions whose body is a local pointer included.
C28_TsTraversalAgrees ==
    (pc = "traversed_ts" /\ NoExternalPointers(root_schema)) =>
        Descriptors(calls) =
            Descriptors(SharedCalls(processed_types.initial, ref_resolver,
                                    reads))

\* C29: for every descriptor the traversal yields, the title of the node
\* handed to the callback equals the name that was added to
\* processed_types for it, for definition descriptors and for property
\* descriptors alike.
C29_TitleIsProcessedName ==
    (pc = "traversed") =>
        \A i \in 1..Len(calls) :
            /\ "title" \in DOMAIN calls[i].node
            /\ calls[i].node.title = calls[i].name
            /\ calls[i].name \in processed_types.final

\* the pointers whose definition in the root document is itself a local
\* pointer
LocalAliasPointers ==
    {p \in ResolvePointers :
        /\ IsLocalRef(p)
        /\ DHas(Definitions(root_schema), basename(p))
        /\ "ref" \in DOMAIN DGet(Definitions(root_schema), basename(p))
        /\ ~IsExternalRef(DGet(Definitions(root_schema), basename(p)).ref)}

\* C30: in every reachable resolver state no value of
\* definition_to_external_map is a local pointer (none begins with '#'),
\* so get_type_for_path answers every pointer after at most one alias hop:
\* the pointer an alias leads to is answered directly.
C30_NoLocalAliasValue ==
    (pc = "api") =>
        /\ \A i \in 1..Len(ref_resolver.definition_to_external_map) :
               IsExternalRef(ref_resolver.definition_to_external_map[i][2])
        /\ \A p \in ResolvePointers :
               (IsLocalRef(p)
                   /\ DHas(ref_resolver.definition_to_external_map,
                           basename(p)))
               => Let(DGet(ref_resolver.definition_to_external_map,
                           basename(p)), LAMBDA ext_path :
                      get_type_for_path(ref_resolver, p) =
                          IF DHas(ref_resolver.external_ref_types, ext_path)
                          THEN DGet(ref_resolver.external_ref_types, ext_path)
                          ELSE <<>>)

\* a definition that is a local pointer has been resolved through, in a
\* resolver that holds an alias: the local pointer was not recorded
C30_Witness ==
    /\ pc = "api"
    /\ api.last.op = "resolve_ref"
    /\ api.last.ptr \in LocalAliasPointers
    /\ ref_resolver.definition_to_external_map # <<>>
    /\ ~DHas(ref_resolver.definition_to_external_map, basename(api.last.ptr))

====
